---- MODULE Spec2Model ----
(***************************************************************************)
(* Model of src/message.rs of the wl crate: the Message framer             *)
(* (Message::read, Message::send), the argument builder (the push         *)
(* methods) and the argument cursor Args (the next methods).               *)
(*                                                                         *)
(* Representation.  TLC integers are 32-bit signed, so a u32 is kept as    *)
(* the pair <<hi, lo>> of its 16-bit halves (value = hi * 2^16 + lo); a    *)
(* usize is kept the same way with hi allowed to reach 2^16 on a 64-bit    *)
(* target.  A byte is a number in 0..255.  Memory and streams are          *)
(* sequences of bytes; the bytes of a word are laid out in the byte order  *)
(* of the target (to_ne_bytes / from_ne_bytes / pointer casts).            *)
(***************************************************************************)
EXTENDS Integers, Sequences, FiniteSets, TLC

VARIABLES
    build,    \* the target the crate is compiled for: byte order and usize profile
    stream,   \* the byte stream Message::send writes to and Message::read reads from
    sent,     \* the messages given to Message::send so far, in order
    written,  \* bytes the Message::send calls have written so far
    fed,      \* number of raw chunks the remote peer has written to the stream
    nreads,   \* number of Message::read calls so far
    rd,       \* the outcome of the latest Message::read call
    msg,      \* the Message under construction / being decoded by the cursor
    cur,      \* the Args cursor: whether one has been made, and its remaining view (words)
    pushed,   \* the typed values pushed onto msg so far, in order
    ncalls,   \* number of next_* calls made on the cursor so far
    inStep,   \* TRUE while call i has been the extraction matching pushed[i], for every call
    last,     \* the latest next_* call: its name and what it returned
    panicked  \* TRUE once a call has panicked (the thread unwinds)

framerVars == <<stream, sent, written, fed, nreads, rd>>
cursorVars == <<msg, cur, pushed, ncalls, inStep, last, panicked>>
vars == <<build, stream, sent, written, fed, nreads, rd, msg, cur, pushed, ncalls, inStep, last, panicked>>

-----------------------------------------------------------------------------
(* Bounds of the model *)

MaxSends == 2        \* Message::send calls in one behaviour
MaxReads == 3        \* Message::read calls in one behaviour
MaxSmallArgs == 1    \* longest args of the exhaustively enumerated messages
MaxFeedWords == 1    \* body words in a chunk written by the remote peer
MaxWritten == 65540  \* bytes Message::send writes in one behaviour, all calls together
MaxPushes == 3       \* push calls on one message
MaxNexts == 3        \* next calls on one cursor

-----------------------------------------------------------------------------
(* Words, bytes and the target *)

Pow16 == 65536

Min(a, b) == IF a <= b THEN a ELSE b

\* The targets the crate can be built for.  The byte order decides every byte image.
\* The usize profile (64-bit; 32-bit with wrapping arithmetic, the release default;
\* 32-bit with overflow checks, the debug default) decides one thing only, the outcome
\* of a usize addition that exceeds 32 bits: it stays "unobserved" until the first
\* such addition, which fixes it for the rest of the behaviour.
Endians == {"little", "big"}
Profiles == {"usize64", "usize32-wrapping", "usize32-checked"}

\* u32::from_ne_bytes([b0, b1, b2, b3]): bytes in memory order.
FromNeBytes(e, b0, b1, b2, b3) ==
    IF e = "little" THEN <<b3 * 256 + b2, b1 * 256 + b0>>
                    ELSE <<b0 * 256 + b1, b2 * 256 + b3>>

\* u32::to_ne_bytes(w), also the memory image of a u32 read through a *const u8.
ToNeBytes(e, w) ==
    IF e = "little" THEN <<w[2] % 256, w[2] \div 256, w[1] % 256, w[1] \div 256>>
                    ELSE <<w[1] \div 256, w[1] % 256, w[2] \div 256, w[2] % 256>>

\* The word stored at byte offset off (0-based) of the byte sequence s.
WordAt(e, s, off) == FromNeBytes(e, s[off + 1], s[off + 2], s[off + 3], s[off + 4])

\* The memory image of a word sequence: slice::from_raw_parts(ws.as_ptr() as *const u8, 4 * len).
BytesOf(e, ws) ==
    [i \in 1..(4 * Len(ws)) |-> ToNeBytes(e, ws[((i - 1) \div 4) + 1])[((i - 1) % 4) + 1]]

\* A reader that hands out what was asked for and discards whatever else it held.
DropAll(s, n) == <<>>

\* s without its first n bytes (all of it gone when n >= Len(s)).
Drop(s, n) == SubSeq(s, n + 1, Len(s))

\* A small number as a u32.
U32(n) == <<n \div Pow16, n % Pow16>>

-----------------------------------------------------------------------------
(* Message::send *)

NoMessage == [object |-> <<0, 0>>, opcode |-> 0, args |-> <<>>, none |-> TRUE]
Message(object, opcode, args) == [object |-> object, opcode |-> opcode, args |-> args]

\* let info = (message_size << 16) as u32 | self.opcode as u32;
\* the shift drops the bits above the usize, the cast those above bit 31: the high half
\* of info is message_size modulo 2^16 on 32-bit and on 64-bit targets alike.
SendInfoSizeOnly(message_size, opcode) == <<message_size % Pow16, 0>>

SendInfo(message_size, opcode) == <<message_size % Pow16, opcode>>

\* The bytes Message::send writes for m, in order (three write_all calls).
SendBytes(e, m) ==
    LET args_size    == Len(m.args) * 4
        message_size == 8 + args_size
    IN  ToNeBytes(e, m.object)
          \o ToNeBytes(e, SendInfo(message_size, m.opcode))
          \o BytesOf(e, m.args)

-----------------------------------------------------------------------------
(* Message::read *)

\* if message_size & 0b11 != 0 || message_size < 8
SizeInvalidNoMinimum(message_size) == message_size % 4 # 0

SizeInvalid(message_size) == message_size % 4 # 0 \/ message_size < 8

\* What a failed read_exact does after it has hit the end of the stream.
ReadCallsAfterEofRetry(failed) == failed + 1

ReadCallsAfterEof(failed) == failed

\* Message::read on the stream s.  The result records: res, the io::Result kind;
\* msg, the Message returned (NoMessage for Err); consumed, the bytes taken by the
\* read_exact calls that succeeded; calls, the number of read_exact calls made;
\* failed, the index of the read_exact call that failed (0 when none did).
\* The while loop makes (message_size - 8) / 4 iterations, each one read_exact of 4
\* bytes and one push; it stops at the first read_exact that cannot be filled.
MessageRead(e, s) ==
    IF Len(s) < 4 THEN
        [res |-> "UnexpectedEof", msg |-> NoMessage, consumed |-> 0,
         calls |-> ReadCallsAfterEof(1), failed |-> 1]
    ELSE IF Len(s) < 8 THEN
        [res |-> "UnexpectedEof", msg |-> NoMessage, consumed |-> 4,
         calls |-> ReadCallsAfterEof(2), failed |-> 2]
    ELSE
        LET object       == WordAt(e, s, 0)
            p            == WordAt(e, s, 4)
            message_size == p[1]
            opcode       == p[2]
        IN  IF SizeInvalid(message_size) THEN
                [res |-> "InvalidData", msg |-> NoMessage, consumed |-> 8,
                 calls |-> 2, failed |-> 0]
            ELSE
                LET n     == (message_size - 8) \div 4
                    avail == (Len(s) - 8) \div 4
                    k     == Min(n, avail)
                IN  IF k < n THEN
                        [res |-> "UnexpectedEof", msg |-> NoMessage, consumed |-> 8 + 4 * k,
                         calls |-> ReadCallsAfterEof(2 + k + 1), failed |-> 2 + k + 1]
                    ELSE
                        [res |-> "Ok",
                         msg |-> Message(object, opcode,
                                         [i \in 1..n |-> WordAt(e, s, 8 + 4 * (i - 1))]),
                         consumed |-> 8 + 4 * n, calls |-> 2 + n, failed |-> 0]

\* read_exact leaves unspecified how much of a too-short stream it takes before it
\* reports UnexpectedEof: nothing, or all that was left.
EofTaken(s, r) ==
    IF r.res = "UnexpectedEof" THEN {0, Len(s) - r.consumed} ELSE {0}

-----------------------------------------------------------------------------
(* Message::push_u32, push_i32, push_fixed, push_str, push_bytes *)

\* int as u32 for an i32 (two's complement), kept as <<hi, lo>>.
I32ToU32(i) ==
    IF i >= 0 THEN <<i \div Pow16, i % Pow16>>
    ELSE LET m == -(i + 1) IN <<65535 - (m \div Pow16), 65535 - (m % Pow16)>>

\* i as i32 for a u32.
U32ToI32SignLost(w) == (w[1] % 32768) * Pow16 + w[2]

U32ToI32(w) ==
    IF w[1] < 32768 THEN w[1] * Pow16 + w[2]
    ELSE -((65535 - w[1]) * Pow16 + (65535 - w[2])) - 1

\* The words of the full 4-byte chunks of the byte sequence b (chunks_exact(4)).
ChunkWords(e, b) ==
    [i \in 1..(Len(b) \div 4) |->
        FromNeBytes(e, b[4 * i - 3], b[4 * i - 2], b[4 * i - 1], b[4 * i])]

\* The words push_str appends for the byte string str.
PushStrLenNoTerminator(str) == U32(Len(str))

PushStrLen(str) == U32(Len(str) + 1)

\* push_str that pads like push_bytes: no word is added when the content ends on a
\* word boundary.
PushStrWordsUnpadded(e, str) ==
    LET q == Len(str) \div 4
        r == SubSeq(str, 4 * q + 1, Len(str))
        final == CASE Len(r) = 0 -> <<>>
                   [] Len(r) = 1 -> <<FromNeBytes(e, r[1], 0, 0, 0)>>
                   [] Len(r) = 2 -> <<FromNeBytes(e, r[1], r[2], 0, 0)>>
                   [] Len(r) = 3 -> <<FromNeBytes(e, r[1], r[2], r[3], 0)>>
    IN  <<PushStrLen(str)>> \o ChunkWords(e, str) \o final

PushStrWords(e, str) ==
    LET q == Len(str) \div 4
        r == SubSeq(str, 4 * q + 1, Len(str))
        final == CASE Len(r) = 0 -> <<0, 0>>
                   [] Len(r) = 1 -> FromNeBytes(e, r[1], 0, 0, 0)
                   [] Len(r) = 2 -> FromNeBytes(e, r[1], r[2], 0, 0)
                   [] Len(r) = 3 -> FromNeBytes(e, r[1], r[2], r[3], 0)
    IN  <<PushStrLen(str)>> \o ChunkWords(e, str) \o <<final>>

\* The length word push_bytes writes: bytes.len() as u32 | 0b11.
PushBytesLen(bytes) == U32(Len(bytes) - (Len(bytes) % 4) + 3)

\* The words push_bytes appends for the byte sequence bytes.
PushBytesWords(e, bytes) ==
    LET q == Len(bytes) \div 4
        r == SubSeq(bytes, 4 * q + 1, Len(bytes))
        final == CASE Len(r) = 0 -> <<>>
                   [] Len(r) = 1 -> <<FromNeBytes(e, r[1], 0, 0, 0)>>
                   [] Len(r) = 2 -> <<FromNeBytes(e, r[1], r[2], 0, 0)>>
                   [] Len(r) = 3 -> <<FromNeBytes(e, r[1], r[2], r[3], 0)>>
    IN  <<PushBytesLen(bytes)>> \o ChunkWords(e, bytes) \o final

-----------------------------------------------------------------------------
(* Args: next_u32, next_i32, next_fixed, next_str, next_array, next_new_id *)
(* Each operator takes the cursor's remaining view c and gives the value    *)
(* returned (ret) and the remaining view after the call (cur).              *)

None == [kind |-> "None"]
Some(v) == [kind |-> "Some", val |-> v]
Panic == [kind |-> "Panic"]
Fixed(i) == [fixed |-> i]

\* usize comparison and conversion; a usize is <<hi, lo>>, k a small number.
GtNat(w, k) == w[1] > k \div Pow16 \/ (w[1] = k \div Pow16 /\ w[2] > k % Pow16)
ToNat(w) == w[1] * Pow16 + w[2]

\* (len & !0b11) + 4 in unbounded arithmetic: hi reaches 2^16 when the sum needs 33 bits.
RoundUp4(len) ==
    LET lo == len[2] - (len[2] % 4) + 4
    IN  IF lo = Pow16 THEN <<len[1] + 1, 0>> ELSE <<len[1], lo>>

\* "Round up to the next aligned index" as next_str and next_array write it.
AlignedExact(len) == IF len[2] % 4 # 0 THEN RoundUp4(len) ELSE len

\* The rounding of the length word at the front of c exceeds a 32-bit usize.
Overflows(c) == c # <<>> /\ AlignedExact(Head(c))[1] >= Pow16

\* The usize profiles a call on c may run under: the one already observed, or any
\* when none has been observed and the call is the first to overflow.
ProfilesFor(c) ==
    IF build.profile = "unobserved" /\ Overflows(c) THEN Profiles ELSE {build.profile}

\* The aligned length under profile p: [panic, val].
Aligned(p, len) ==
    LET exact == AlignedExact(len)
    IN  IF exact[1] >= Pow16 /\ p = "usize32-checked"
            THEN [panic |-> TRUE, val |-> exact]
        ELSE IF exact[1] >= Pow16 /\ p = "usize32-wrapping"
            THEN [panic |-> FALSE, val |-> <<exact[1] % Pow16, exact[2]>>]
        ELSE [panic |-> FALSE, val |-> exact]

NextU32(c) ==
    IF c = <<>> THEN [ret |-> None, cur |-> c]
    ELSE [ret |-> Some(Head(c)), cur |-> Tail(c)]

\* next_i32 that gives the front word without moving the cursor.
NextI32Peek(c) ==
    IF c = <<>> THEN [ret |-> None, cur |-> c]
    ELSE [ret |-> Some(U32ToI32(Head(c))), cur |-> c]

NextI32(c) ==
    IF c = <<>> THEN [ret |-> None, cur |-> c]
    ELSE [ret |-> Some(U32ToI32(Head(c))), cur |-> Tail(c)]

NextFixed(c) ==
    LET i == NextI32(c)
    IN  IF i.ret.kind = "None" THEN i ELSE [ret |-> Some(Fixed(i.ret.val)), cur |-> i.cur]

\* str[..len].iter().take_while(|&&b| b != 0).count()
RECURSIVE NonNullPrefix(_, _, _)
NonNullPrefix(bytes, from, upto) ==
    IF from > upto \/ bytes[from] = 0 THEN 0
    ELSE 1 + NonNullPrefix(bytes, from + 1, upto)

\* The number of bytes of str that next_str searches for the null byte: len has been
\* overwritten by its rounded value when the search is made.
SearchLen(declared, len) == ToNat(len)

\* A byte slice returned by next_str / next_array: val, its bytes that lie within the
\* words the cursor held; extent, the length of the slice in bytes (a usize); within,
\* whether the whole slice lies within those words.  The bytes of a slice that reaches
\* past the words are whatever memory follows the message: they are not enumerated.
Slice(bytes, extent, room) ==
    [kind |-> "Some", val |-> bytes, extent |-> extent, within |-> ~GtNat(extent, room)]

NextStr(p, e, c) ==
    LET first == NextU32(c)
    IN  IF first.ret.kind = "None" THEN first
        ELSE
            LET declared == first.ret.val
                rest     == first.cur
                a        == Aligned(p, declared)
                len      == a.val
            IN  IF a.panic THEN [ret |-> Panic, cur |-> rest]
                ELSE IF GtNat(len, Len(rest) * 4) THEN [ret |-> None, cur |-> rest]
                ELSE
                    LET str        == BytesOf(e, rest)
                        null_index == NonNullPrefix(str, 1, SearchLen(declared, len))
                    IN  [ret |-> Slice(SubSeq(str, 1, null_index), <<0, null_index>>,
                                       Len(rest) * 4),
                         cur |-> SubSeq(rest, (ToNat(len) \div 4) + 1, Len(rest))]

\* The bound next_array checks before it builds the slice.
ArrayTooLong(len, aligned_len, room) == GtNat(aligned_len, room)

\* next_array that puts the length word back when it returns None.
NextArrayRestoring(p, e, c) ==
    LET first == NextU32(c)
    IN  IF first.ret.kind = "None" THEN first
        ELSE
            LET len         == first.ret.val
                rest        == first.cur
                a           == Aligned(p, len)
                aligned_len == a.val
                room        == Len(rest) * 4
            IN  IF a.panic THEN [ret |-> Panic, cur |-> rest]
                ELSE IF ArrayTooLong(len, aligned_len, room) THEN [ret |-> None, cur |-> c]
                ELSE
                    LET inside == IF GtNat(len, room) THEN room ELSE ToNat(len)
                    IN  [ret |-> Slice(SubSeq(BytesOf(e, rest), 1, inside), len, room),
                         cur |-> SubSeq(rest, (ToNat(aligned_len) \div 4) + 1, Len(rest))]

NextArray(p, e, c) ==
    LET first == NextU32(c)
    IN  IF first.ret.kind = "None" THEN first
        ELSE
            LET len         == first.ret.val
                rest        == first.cur
                a           == Aligned(p, len)
                aligned_len == a.val
                room        == Len(rest) * 4
            IN  IF a.panic THEN [ret |-> Panic, cur |-> rest]
                ELSE IF ArrayTooLong(len, aligned_len, room) THEN [ret |-> None, cur |-> rest]
                ELSE
                    LET inside == IF GtNat(len, room) THEN room ELSE ToNat(len)
                    IN  [ret |-> Slice(SubSeq(BytesOf(e, rest), 1, inside), len, room),
                         cur |-> SubSeq(rest, (ToNat(aligned_len) \div 4) + 1, Len(rest))]

\* std::str::from_utf8(bytes).is_ok(): well-formed UTF-8 (no overlong forms, no
\* surrogates, nothing above U+10FFFF).
IsCont(b) == b >= 128 /\ b <= 191
RECURSIVE Utf8Valid(_)
Utf8Valid(b) ==
    IF b = <<>> THEN TRUE
    ELSE
        LET n  == Len(b)
            b1 == b[1]
            b2 == IF n >= 2 THEN b[2] ELSE 0
            b3 == IF n >= 3 THEN b[3] ELSE 0
            b4 == IF n >= 4 THEN b[4] ELSE 0
            w  == CASE b1 < 128 -> 1
                    [] b1 >= 194 /\ b1 <= 223 /\ IsCont(b2) -> 2
                    [] b1 = 224 /\ b2 >= 160 /\ b2 <= 191 /\ IsCont(b3) -> 3
                    [] b1 >= 225 /\ b1 <= 236 /\ IsCont(b2) /\ IsCont(b3) -> 3
                    [] b1 = 237 /\ b2 >= 128 /\ b2 <= 159 /\ IsCont(b3) -> 3
                    [] b1 >= 238 /\ b1 <= 239 /\ IsCont(b2) /\ IsCont(b3) -> 3
                    [] b1 = 240 /\ b2 >= 144 /\ b2 <= 191 /\ IsCont(b3) /\ IsCont(b4) -> 4
                    [] b1 >= 241 /\ b1 <= 243 /\ IsCont(b2) /\ IsCont(b3) /\ IsCont(b4) -> 4
                    [] b1 = 244 /\ b2 >= 128 /\ b2 <= 143 /\ IsCont(b3) /\ IsCont(b4) -> 4
                    [] OTHER -> 0
        IN  w > 0 /\ Utf8Valid(SubSeq(b, w + 1, n))

Err(kind, what) == [kind |-> "Err", err |-> kind, what |-> what]
Ok(v) == [kind |-> "Ok", val |-> v]

\* The NewId built from the three extracted fields.
NewIdSwapped(interface, version, id) == [interface |-> interface, version |-> id, id |-> version]

NewId(interface, version, id) == [interface |-> interface, version |-> version, id |-> id]

\* What next_new_id does with the interface bytes next_str returned.
InterfaceCheckLenient(bytes) == TRUE

InterfaceCheck(bytes) == Utf8Valid(bytes)

NextNewId(p, e, c) ==
    LET s == NextStr(p, e, c)
    IN  IF s.ret.kind = "Panic" THEN s
        ELSE IF s.ret.kind = "None" THEN
            [ret |-> Err("ExpectedArgument", "new_id interface"), cur |-> s.cur]
        ELSE IF ~InterfaceCheck(s.ret.val) THEN
            [ret |-> Err("Utf8Error", "Interface name for a generic new_id"), cur |-> s.cur]
        ELSE
            LET version == NextU32(s.cur)
            IN  IF version.ret.kind = "None" THEN
                    [ret |-> Err("ExpectedArgument", "new_id version"), cur |-> version.cur]
                ELSE
                    LET id == NextU32(version.cur)
                    IN  IF id.ret.kind = "None" THEN
                            [ret |-> Err("ExpectedArgument", "new_id id"), cur |-> id.cur]
                        ELSE
                            [ret |-> Ok(NewId(s.ret.val, version.ret.val, id.ret.val)),
                             cur |-> id.cur]

-----------------------------------------------------------------------------
(* Inputs of the framer *)

Headers == {[object |-> <<0, 1>>, opcode |-> 65535], [object |-> <<65535, 65534>>, opcode |-> 7]}
ArgWords == {<<0, 5>>, <<43981, 4660>>}

RECURSIVE SeqsUpTo(_, _)
SeqsUpTo(S, n) ==
    IF n = 0 THEN {<<>>}
    ELSE LET shorter == SeqsUpTo(S, n - 1)
         IN  shorter \cup {Append(q, x) : q \in {t \in shorter : Len(t) = n - 1}, x \in S}

SmallMessages ==
    {Message(h.object, h.opcode, a) : h \in Headers, a \in SeqsUpTo(ArgWords, MaxSmallArgs)}

\* The largest args whose framed size 8 + 4 * len fits the 16-bit size field
\* (a multiple of 4 below 2^16), and the largest length the round trip is claimed for.
MaxWireArgs == (Pow16 - 4 - 8) \div 4
MaxClaimedArgs == (Pow16 \div 4) - 1

\* One long message for each length next to the limit of the size field.
LongArgs(n) == [i \in 1..n |-> <<i % Pow16, (7 * i) % Pow16>>]
LongLens == MaxWireArgs..MaxClaimedArgs
LongMessage(n) == Message(<<4660, 22136>>, 513, LongArgs(n))

\* What a remote peer may put on the wire: a header with any size field sz and body
\* words, of which the first k bytes arrive (a peer that closes the connection
\* mid-message).
FeedSizes == {0, 4, 6, 8, 9, 12, 16, 65535}
FeedFrame(e, sz, w) ==
    ToNeBytes(e, <<0, 3>>) \o ToNeBytes(e, <<sz, 9>>)
        \o BytesOf(e, [i \in 1..w |-> <<258, 772 + i>>])

-----------------------------------------------------------------------------
(* State machine of the framer *)

NoRead == [res |-> "none", msg |-> NoMessage, consumed |-> 0, calls |-> 0, failed |-> 0,
           taken |-> 0, nth |-> 0, sends |-> 0, feeds |-> 0]

NoCursor == [live |-> FALSE, args |-> <<>>]
NoCall == [op |-> "none", ret |-> [kind |-> "none"]]

InitCommon ==
    /\ build \in [endian : Endians, profile : {"unobserved"}]
    /\ stream = <<>>
    /\ sent = <<>>
    /\ written = 0
    /\ fed = 0
    /\ nreads = 0
    /\ rd = NoRead
    /\ msg = Message(<<0, 1>>, 0, <<>>)
    /\ cur = NoCursor
    /\ pushed = <<>>
    /\ ncalls = 0
    /\ inStep = TRUE
    /\ last = NoCall
    /\ panicked = FALSE

\* Message::send(m, &mut stream): appends the frame of m to the in-memory buffer (a
\* Vec<u8>, whose write_all never fails).  The stream of a behaviour is either such a
\* buffer, written by send alone, or a wire written by the remote peer alone.
Send(m) ==
    /\ Len(sent) < MaxSends
    /\ fed = 0
    /\ \E bytes \in {SendBytes(build.endian, m)} :
           /\ stream' = stream \o bytes
           /\ written' = written + Len(bytes)
    /\ sent' = Append(sent, m)
    /\ UNCHANGED <<build, fed, nreads, rd, cursorVars>>

\* Message::send of a message of n argument words, while the bytes written stay
\* within MaxWritten (the bound is tested on n before the message is built).
SendWithin(n, m) ==
    /\ written + 8 + 4 * n <= MaxWritten
    /\ Send(m)

\* The remote peer writes the first k bytes of a frame to the wire.
Feed(sz, w, k) ==
    /\ fed = 0
    /\ sent = <<>>
    /\ k <= 8 + 4 * w
    /\ stream' = stream \o SubSeq(FeedFrame(build.endian, sz, w), 1, k)
    /\ fed' = fed + 1
    /\ UNCHANGED <<build, sent, written, nreads, rd, cursorVars>>

\* Message::read(&mut stream).  (\E r \in {v} binds r to the value v, computed once.)
Read ==
    /\ nreads < MaxReads
    /\ \E r \in {MessageRead(build.endian, stream)} :
           \E extra \in EofTaken(stream, r) :
             /\ rd' = [res |-> r.res, msg |-> r.msg, consumed |-> r.consumed,
                       calls |-> r.calls, failed |-> r.failed, taken |-> r.consumed + extra,
                       nth |-> nreads + 1, sends |-> Len(sent), feeds |-> fed]
             /\ stream' = Drop(stream, r.consumed + extra)
    /\ nreads' = nreads + 1
    /\ UNCHANGED <<build, sent, written, fed, cursorVars>>

NextFramer ==
    \/ \E m \in SmallMessages : SendWithin(Len(m.args), m)
    \/ \E n \in LongLens : SendWithin(n, LongMessage(n))
    \/ \E sz \in FeedSizes, w \in 0..MaxFeedWords, k \in 1..(8 + 4 * MaxFeedWords) :
          Feed(sz, w, k)
    \/ Read

SpecFramer == InitCommon /\ [][NextFramer]_vars

-----------------------------------------------------------------------------
(* State machine of the builder and the cursor *)

\* Inputs of the push methods.
AbcdWord(e) == FromNeBytes(e, 97, 98, 99, 100)
U32Vals(e) == {<<0, 5>>, <<65535, 65535>>, AbcdWord(e)}
I32Vals == {-2147483647 - 1}
FixedVals == {Fixed(-256)}
Strs == {<<>>, <<195>>, <<195, 169>>, <<97, 98, 99>>, <<97, 98, 99, 100>>}
ByteSeqs == {<<1, 2, 3>>, <<0, 1, 2, 0, 3>>}

\* A push method appends words to self.args; &mut self cannot be taken while a
\* cursor borrows the message.
Push(type, val, words) ==
    /\ ~cur.live
    /\ Len(pushed) < MaxPushes
    /\ msg' = [msg EXCEPT !.args = @ \o words]
    /\ pushed' = Append(pushed, [type |-> type, val |-> val])
    /\ UNCHANGED <<build, framerVars, cur, ncalls, inStep, last, panicked>>

PushU32(int) == Push("u32", int, <<int>>)
PushI32(int) == Push("i32", int, <<I32ToU32(int)>>)
PushFixed(fixed) == Push("fixed", fixed, <<I32ToU32(fixed.fixed)>>)
PushStr(str) == Push("str", str, PushStrWords(build.endian, str))
PushBytes(bytes) == Push("bytes", bytes, PushBytesWords(build.endian, bytes))

\* Message::args(&self): a cursor over all of self.args.
ArgsCall ==
    /\ ~cur.live
    /\ cur' = [live |-> TRUE, args |-> msg.args]
    /\ UNCHANGED <<build, framerVars, msg, pushed, ncalls, inStep, last, panicked>>

\* The push whose value the extraction op gives back.
TypeOf(op) ==
    CASE op = "next_u32" -> "u32"
      [] op = "next_i32" -> "i32"
      [] op = "next_fixed" -> "fixed"
      [] op = "next_str" -> "str"
      [] op = "next_array" -> "bytes"
      [] OTHER -> "none"

\* A next method that takes the words it extracts out of the message itself.
CallDraining(op, r, p) ==
    /\ cur.live
    /\ ~panicked
    /\ ncalls < MaxNexts
    /\ cur' = [cur EXCEPT !.args = r.cur]
    /\ msg' = [msg EXCEPT !.args = r.cur]
    /\ last' = [op |-> op, ret |-> r.ret]
    /\ ncalls' = ncalls + 1
    /\ inStep' = (/\ inStep
                  /\ ncalls < Len(pushed)
                  /\ pushed[ncalls + 1].type = TypeOf(op))
    /\ panicked' = (r.ret.kind = "Panic")
    /\ build' = [build EXCEPT !.profile = p]
    /\ UNCHANGED <<framerVars, pushed>>

\* A next method runs on the cursor under usize profile p and gives r.
Call(op, r, p) ==
    /\ cur.live
    /\ ~panicked
    /\ ncalls < MaxNexts
    /\ cur' = [cur EXCEPT !.args = r.cur]
    /\ last' = [op |-> op, ret |-> r.ret]
    /\ ncalls' = ncalls + 1
    /\ inStep' = (/\ inStep
                  /\ ncalls < Len(pushed)
                  /\ pushed[ncalls + 1].type = TypeOf(op))
    /\ panicked' = (r.ret.kind = "Panic")
    /\ build' = [build EXCEPT !.profile = p]
    /\ UNCHANGED <<framerVars, msg, pushed>>

CallNextU32 == Call("next_u32", NextU32(cur.args), build.profile)
CallNextI32 == Call("next_i32", NextI32(cur.args), build.profile)
CallNextFixed == Call("next_fixed", NextFixed(cur.args), build.profile)
CallNextStr ==
    \E p \in ProfilesFor(cur.args) : Call("next_str", NextStr(p, build.endian, cur.args), p)
CallNextArray ==
    \E p \in ProfilesFor(cur.args) : Call("next_array", NextArray(p, build.endian, cur.args), p)
CallNextNewId ==
    \E p \in ProfilesFor(cur.args) : Call("next_new_id", NextNewId(p, build.endian, cur.args), p)

NextCursor ==
    \/ \E int \in U32Vals(build.endian) : PushU32(int)
    \/ \E int \in I32Vals : PushI32(int)
    \/ \E fixed \in FixedVals : PushFixed(fixed)
    \/ \E str \in Strs : PushStr(str)
    \/ \E bytes \in ByteSeqs : PushBytes(bytes)
    \/ ArgsCall
    \/ CallNextU32
    \/ CallNextI32
    \/ CallNextFixed
    \/ CallNextStr
    \/ CallNextArray
    \/ CallNextNewId

SpecCursor == InitCommon /\ [][NextCursor]_vars

-----------------------------------------------------------------------------
(* Properties of the framer *)

\* The step is a Message::read call.
IsRead == nreads' = nreads + 1

\* The size field (high 16 bits of the second header word) of a stream of >= 8 bytes,
\* taken from the bytes themselves.
SizeField(s) ==
    IF build.endian = "little" THEN s[8] * 256 + s[7] ELSE s[5] * 256 + s[6]

\* The first read of a behaviour came right after exactly one send into the empty buffer.
SentThenRead == rd.nth = 1 /\ rd.sends = 1

RoundTrip(maxLen) ==
    (SentThenRead /\ Len(sent[1].args) <= maxLen)
        => (rd.res = "Ok" /\ rd.msg = sent[1])

\* C1 as claimed: for every Message with args.len() <= 16383, send into an in-memory
\* buffer followed by read from that buffer returns Ok with the same object, opcode
\* and args.
C1_RoundTripClaimed == RoundTrip(MaxClaimedArgs)

\* C1 as amended: for every Message with args.len() <= 16381 (the largest args whose
\* framed size 8 + 4 * len fits the 16-bit size field), send followed by read from
\* the same buffer returns Ok with the same object, opcode and args.
C1_RoundTripWire == RoundTrip(MaxWireArgs)

C1_Witness ==
    /\ SentThenRead
    /\ Len(sent[1].args) = MaxWireArgs
    /\ build.endian = "big"
    /\ rd.res = "Ok"
    /\ rd.msg.args[MaxWireArgs] = <<MaxWireArgs % Pow16, (7 * MaxWireArgs) % Pow16>>

\* C4: Message::read on a stream whose size field is not a multiple of 4 or is below 8
\* returns InvalidData, returns no Message, and has consumed exactly the 8 header bytes.
C4_FramingRejected ==
    [][(IsRead /\ Len(stream) >= 8
          /\ (SizeField(stream) % 4 # 0 \/ SizeField(stream) < 8))
        => (/\ rd'.res = "InvalidData"
            /\ rd'.msg = NoMessage
            /\ rd'.taken = 8
            /\ stream' = SubSeq(stream, 9, Len(stream)))]_vars

C4_Witness ==
    /\ rd.res = "InvalidData"
    /\ rd.feeds = 1
    /\ rd.taken = 8
    /\ Len(stream) = 4

\* C10: when the stream ends before the 8 header bytes, or with a valid size field
\* before all size - 8 body bytes, Message::read returns UnexpectedEof, returns no
\* Message, and makes no read after the failing one.
C10_ShortReadFails ==
    [][(IsRead
          /\ (\/ Len(stream) < 8
              \/ (/\ SizeField(stream) % 4 = 0
                  /\ SizeField(stream) >= 8
                  /\ Len(stream) < SizeField(stream))))
        => (/\ rd'.res = "UnexpectedEof"
            /\ rd'.msg = NoMessage
            /\ rd'.failed >= 1
            /\ rd'.calls = rd'.failed)]_vars

C10_Witness ==
    /\ rd.res = "UnexpectedEof"
    /\ rd.failed = 4
    /\ rd.calls = 4
    /\ rd.consumed = 12
    /\ rd.msg = NoMessage

-----------------------------------------------------------------------------
(* Properties of the builder and the cursor *)

\* The step is a call of the next method op.
IsCall(op) == ncalls' = ncalls + 1 /\ last'.op = op

\* The number of words the encoding of a pushed value takes, as the wire format
\* states it: one word for an integer or a Fixed, a length word plus floor(n/4) + 1
\* payload words for a string of n bytes, a length word plus ceil(n/4) payload words
\* for an array of n bytes.
EncodedWords(v) ==
    CASE v.type = "str" -> (Len(v.val) \div 4) + 2
      [] v.type = "bytes" -> ((Len(v.val) + 3) \div 4) + 1
      [] OTHER -> 1

RECURSIVE EncodedUpTo(_)
EncodedUpTo(k) == IF k = 0 THEN 0 ELSE EncodedWords(pushed[k]) + EncodedUpTo(k - 1)

\* What is left of msg.args after the encodings of the first k pushed values.
ArgsAfter(k) == SubSeq(msg.args, EncodedUpTo(k) + 1, Len(msg.args))

\* None of the first k pushed values is a byte array.
NoBytesUpTo(k) == \A j \in 1..k : pushed[j].type # "bytes"

\* Every call so far has extracted the value pushed at the same position.
Extracted(k) == inStep /\ ncalls = k /\ k >= 1

\* C2: push_bytes(b) followed by next_array() returns Some slice equal to b, of length
\* len(b), and leaves the cursor at the first word after the array's encoding, so that
\* a value pushed after the array is what the next extraction returns.
C2_ArrayRoundTrip ==
    /\ (Extracted(1) /\ last.op = "next_array")
          => (/\ last.ret.kind = "Some"
              /\ last.ret.val = pushed[1].val
              /\ last.ret.extent = U32(Len(pushed[1].val))
              /\ cur.args = ArgsAfter(1))
    /\ (Extracted(2) /\ pushed[1].type = "bytes")
          => (last.ret.kind = "Some" /\ last.ret.val = pushed[2].val)

\* C3: for a byte string s without a zero byte, push_str(s) followed by next_str()
\* returns Some slice equal to s, and the cursor has consumed exactly the words
\* push_str appended (a length word and floor(len(s)/4) + 1 payload words).
C3_StrRoundTrip ==
    (Extracted(ncalls) /\ NoBytesUpTo(ncalls) /\ last.op = "next_str")
        => (/\ last.ret.kind = "Some"
            /\ last.ret.val = pushed[ncalls].val
            /\ cur.args = ArgsAfter(ncalls))

C3_Witness ==
    /\ Extracted(2)
    /\ last.op = "next_str"
    /\ pushed[1].type = "str"
    /\ pushed[2].val = <<97, 98, 99, 100>>
    /\ Len(pushed) = 3
    /\ last.ret.val = <<97, 98, 99, 100>>
    /\ Len(cur.args) = EncodedWords(pushed[3])

\* C5: next_str and next_array return None whenever the declared length rounded up to
\* a multiple of 4 exceeds 4 times the words remaining after the length word, and no
\* byte outside the cursor's remaining words is included in the returned slice.
C5_BoundsSafe ==
    [][((IsCall("next_str") \/ IsCall("next_array")) /\ cur.args # <<>>)
        => (/\ GtNat(AlignedExact(Head(cur.args)), 4 * (Len(cur.args) - 1))
                  => last'.ret.kind = "None"
            /\ last'.ret.kind = "Some" => last'.ret.within)]_vars

\* C6: when next_str succeeds on a length word len, the returned slice is the bytes
\* before the first null byte found within the first len bytes after the length word,
\* so it never has more than len bytes (stated for the length words whose rounding
\* fits a 32-bit usize).
C6_StrWithinDeclared ==
    [][(IsCall("next_str") /\ last'.ret.kind = "Some" /\ ~Overflows(cur.args))
        => LET payload  == BytesOf(build.endian, Tail(cur.args))
               declared == ToNat(Head(cur.args))
           IN  /\ last'.ret.val = SubSeq(payload, 1, NonNullPrefix(payload, 1, declared))
               /\ Len(last'.ret.val) <= declared]_vars

\* C7: typed values (u32, i32, Fixed, null-free byte strings) pushed in order onto a
\* message with empty args and extracted in the same order with the matching next
\* methods each come back as pushed, and the cursor is exhausted exactly after the
\* last extraction.
C7_TypedRoundTrip ==
    (Extracted(ncalls) /\ NoBytesUpTo(Len(pushed)))
        => (/\ last.ret.kind = "Some"
            /\ last.ret.val = pushed[ncalls].val
            /\ (cur.args = <<>>) <=> (ncalls = Len(pushed)))

C7_Witness ==
    /\ Extracted(3)
    /\ pushed[1].type = "i32"
    /\ pushed[2].type = "str"
    /\ pushed[3].type = "fixed"
    /\ last.ret.val = Fixed(-256)
    /\ cur.args = <<>>

\* The first call on the cursor was next_new_id, and it returned.
FirstNewId == ncalls = 1 /\ last.op = "next_new_id" /\ ~panicked

\* next_str cannot extract a string from the front of msg.args.
NoStrAtFront ==
    \/ msg.args = <<>>
    \/ GtNat(Aligned(build.profile, msg.args[1]).val, 4 * (Len(msg.args) - 1))

\* C8: next_new_id extracts the interface string, then the version word, then the id
\* word: ExpectedArgument("new_id interface") when the string cannot be extracted,
\* ExpectedArgument("new_id version") when the cursor is exhausted right after the
\* string, ExpectedArgument("new_id id") when it is exhausted right after the
\* version, otherwise NewId{interface, version, id}, version being the word before id.
C8_NewIdOrder ==
    /\ (FirstNewId /\ NoStrAtFront)
          => last.ret = Err("ExpectedArgument", "new_id interface")
    /\ (FirstNewId /\ Len(pushed) >= 1 /\ pushed[1].type = "str"
          /\ Utf8Valid(pushed[1].val))
          => LET k    == EncodedWords(pushed[1])
                 left == Len(msg.args) - k
             IN  CASE left = 0 -> last.ret = Err("ExpectedArgument", "new_id version")
                   [] left = 1 -> last.ret = Err("ExpectedArgument", "new_id id")
                   [] OTHER -> /\ last.ret.kind = "Ok"
                               /\ last.ret.val.interface = pushed[1].val
                               /\ last.ret.val.version = msg.args[k + 1]
                               /\ last.ret.val.id = msg.args[k + 2]
                               /\ cur.args = SubSeq(msg.args, k + 3, Len(msg.args))

C8_Witness ==
    /\ FirstNewId
    /\ last.ret.kind = "Ok"
    /\ last.ret.val.interface = <<195, 169>>
    /\ last.ret.val.version = <<65535, 65535>>
    /\ last.ret.val.id = <<0, 5>>

\* The interface string of a new_id was pushed first and is not valid UTF-8.
BadInterfacePushed ==
    Len(pushed) >= 1 /\ pushed[1].type = "str" /\ ~Utf8Valid(pushed[1].val)

\* C9: when the interface bytes are not valid UTF-8, next_new_id fails with Utf8Error,
\* and the cursor has advanced past the length word and the string's padded words but
\* not past the version and id words: a following next_u32 returns the version word.
C9_Utf8Rejected ==
    [][/\ (IsCall("next_new_id") /\ ncalls = 0 /\ BadInterfacePushed)
            => (/\ last'.ret = Err("Utf8Error", "Interface name for a generic new_id")
                /\ cur'.args = ArgsAfter(1))
       /\ (IsCall("next_u32") /\ ncalls = 1 /\ last.op = "next_new_id"
             /\ BadInterfacePushed /\ Len(pushed) >= 2)
            => last'.ret = Some(msg.args[EncodedWords(pushed[1]) + 1])]_vars

C9_Witness ==
    /\ ncalls = 1
    /\ last.op = "next_new_id"
    /\ last.ret.kind = "Err"
    /\ last.ret.err = "Utf8Error"
    /\ pushed[1].val = <<195>>
    /\ cur.args = <<<<65535, 65535>>, <<0, 5>>>>

\* The value of the word w read as a two's-complement 32-bit signed integer.
SignedOf(w) == IF w[1] >= 32768 THEN (w[1] - Pow16) * Pow16 + w[2] ELSE w[1] * Pow16 + w[2]

\* What an integer extraction must do on the remaining view c: None and an exhausted
\* cursor on an exhausted cursor, otherwise Some(v) and a cursor one word shorter.
TakesFront(c, v) ==
    IF c = <<>> THEN last'.ret = None /\ cur'.args = <<>>
    ELSE last'.ret = Some(v) /\ cur'.args = SubSeq(c, 2, Len(c))

\* C11: on a non-empty cursor next_u32, next_i32 and next_fixed return the front word
\* (as unsigned, as its two's-complement signed value, as Fixed of that signed value)
\* and advance the cursor by exactly one word; on an exhausted cursor each returns
\* None and leaves the cursor exhausted, at every call.
C11_IntegerExtraction ==
    [][/\ IsCall("next_u32") => TakesFront(cur.args, cur.args[1])
       /\ IsCall("next_i32") => TakesFront(cur.args, SignedOf(cur.args[1]))
       /\ IsCall("next_fixed") => TakesFront(cur.args, Fixed(SignedOf(cur.args[1])))]_vars

C11_Witness ==
    /\ msg.args = <<<<65535, 65535>>>>
    /\ ncalls = 3
    /\ last.op = "next_fixed"
    /\ last.ret = None
    /\ cur.args = <<>>

-----------------------------------------------------------------------------
(* Properties of Message::send and of back-to-back frames *)

\* The step is a Message::send call.
IsSend == Len(sent') = Len(sent) + 1

\* The send of this step wrote 8 + 4 * len(args) bytes after what the buffer held, and
\* the second word it wrote has that byte count in its high 16 bits and the opcode in
\* its low 16 bits.
SendFrameAgrees ==
    LET m     == sent'[Len(sent')]
        count == 8 + 4 * Len(m.args)
        info  == WordAt(build.endian, stream', Len(stream) + 4)
    IN  /\ Len(stream') = Len(stream) + count
        /\ written' = written + count
        /\ info[1] = count
        /\ info[2] = m.opcode

\* C12: for every Message, send writes 8 + 4 * len(args) bytes and the size field of
\* the header it writes (high 16 bits of the second word) equals that byte count, with
\* the opcode in the low 16 bits.
C12_SendSizeAgrees == [][IsSend => SendFrameAgrees]_vars

\* The opcode field (low 16 bits of the second header word) of a stream of >= 8 bytes,
\* taken from the bytes themselves.
OpcodeField(s) ==
    IF build.endian = "little" THEN s[6] * 256 + s[5] ELSE s[7] * 256 + s[8]

\* The stream starts with a header whose size field is valid and holds at least the
\* size - 8 body bytes the header announces.
ValidFrameAhead ==
    /\ Len(stream) >= 8
    /\ SizeField(stream) % 4 = 0
    /\ SizeField(stream) >= 8
    /\ Len(stream) >= SizeField(stream)

\* The bytes the frames of the messages sent after the first k take, all together.
RECURSIVE UnreadBytes(_)
UnreadBytes(k) ==
    IF k >= Len(sent) THEN 0 ELSE 8 + 4 * Len(sent[k + 1].args) + UnreadBytes(k + 1)

\* Every message sent so far has a framed size that fits the 16-bit size field.
AllFit == \A j \in 1..Len(sent) : 8 + 4 * Len(sent[j].args) < Pow16

\* C13: on a stream that starts with a valid header followed by at least size - 8
\* bytes, Message::read returns Ok (after 2 + (size - 8) / 4 read_exact calls) with
\* object the first word, opcode the low 16 bits of the second word and args the next
\* (size - 8) / 4 words in stream order, and consumes exactly size bytes; and when
\* messages whose framed size fits 16 bits were sent back to back into one buffer, each
\* read returns the oldest message not yet read and leaves exactly the frames of the
\* later ones, so the buffer is empty after the last.
C13_ReadConsumesFrame ==
    [][IsRead =>
        /\ ValidFrameAhead =>
              LET size == SizeField(stream)
                  n    == (size - 8) \div 4
              IN  /\ rd'.res = "Ok"
                  /\ rd'.calls = 2 + n
                  /\ rd'.msg.object = WordAt(build.endian, stream, 0)
                  /\ rd'.msg.opcode = OpcodeField(stream)
                  /\ rd'.msg.args = [i \in 1..n |-> WordAt(build.endian, stream, 4 + 4 * i)]
                  /\ rd'.taken = size
                  /\ stream' = SubSeq(stream, size + 1, Len(stream))
        /\ (fed = 0 /\ AllFit /\ stream # <<>>) =>
              \E k \in 0..(Len(sent) - 1) :
                  /\ UnreadBytes(k) = Len(stream)
                  /\ rd'.res = "Ok"
                  /\ rd'.msg = sent[k + 1]
                  /\ Len(stream') = UnreadBytes(k + 1)]_vars

C13_Witness ==
    /\ nreads = 1
    /\ rd.sends = 2
    /\ rd.res = "Ok"
    /\ rd.msg = sent[1]
    /\ Len(sent[1].args) = MaxWireArgs
    /\ Len(stream) = 8 + 4 * Len(sent[2].args)
    /\ WordAt(build.endian, stream, 0) = sent[2].object

-----------------------------------------------------------------------------
(* Further properties of the builder and the cursor *)

\* The step is a push_str call.
IsPushStr == Len(pushed') = Len(pushed) + 1 /\ pushed'[Len(pushed')].type = "str"

\* C14: push_str(s) with n = len(s) leaves object, opcode and the words pushed before
\* unchanged and appends exactly floor(n/4) + 2 words: a length word n + 1, then the
\* content packed 4 bytes per word in order, the payload byte at offset n and every
\* later payload byte zero; the payload is n + 1 rounded up to a multiple of 4 bytes.
C14_PushStrLayout ==
    [][IsPushStr =>
        LET s       == pushed'[Len(pushed')].val
            n       == Len(s)
            before  == Len(msg.args)
            after   == msg'.args
            payload == BytesOf(build.endian, SubSeq(after, before + 2, Len(after)))
        IN  /\ msg'.object = msg.object
            /\ msg'.opcode = msg.opcode
            /\ SubSeq(after, 1, before) = msg.args
            /\ Len(after) = before + (n \div 4) + 2
            /\ after[before + 1] = <<0, n + 1>>
            /\ \A i \in 1..n : payload[i] = s[i]
            /\ \A i \in (n + 1)..Len(payload) : payload[i] = 0
            /\ Len(payload) >= n + 1
            /\ Len(payload) = ((n + 1 + 3) \div 4) * 4]_vars

C14_Witness ==
    /\ Len(pushed) = 2
    /\ pushed[1].type = "bytes"
    /\ pushed[2].type = "str"
    /\ pushed[2].val = <<97, 98, 99, 100>>
    /\ Len(msg.args) = EncodedWords(pushed[1]) + 3
    /\ msg.args[Len(msg.args)] = <<0, 0>>
    /\ build.endian = "big"
    /\ msg.args[Len(msg.args) - 1] = <<97 * 256 + 98, 99 * 256 + 100>>

\* The word sequence c is what is left of the word sequence a after some of its
\* first words.
IsSuffix(c, a) == Len(c) <= Len(a) /\ c = SubSeq(a, Len(a) - Len(c) + 1, Len(a))

\* The step is a call of a next method.
IsAnyCall == ncalls' = ncalls + 1

\* C15: in every state reached by next calls on a cursor obtained from Message::args,
\* the cursor's remaining view is a suffix of the message's args; no call makes the
\* remaining view longer than it was before the call; and every call leaves the
\* message's object, opcode and args unchanged.
C15_CursorWithinMessage ==
    /\ [](cur.live => IsSuffix(cur.args, msg.args))
    /\ [][IsAnyCall => (Len(cur'.args) <= Len(cur.args) /\ msg' = msg)]_vars

C15_Witness ==
    /\ cur.live
    /\ ncalls = 3
    /\ Len(msg.args) >= 5
    /\ Len(cur.args) = 2
    /\ last.op = "next_array"
    /\ last.ret.kind = "Some"
    /\ cur.args = SubSeq(msg.args, Len(msg.args) - 1, Len(msg.args))

\* The step is a next_str or next_array call that returns None.
IsSliceCallNone == (IsCall("next_str") \/ IsCall("next_array")) /\ last'.ret = None

\* The first call on the cursor was next_str or next_array and returned None with
\* words still left after the length word.
FirstSliceNone ==
    /\ ncalls = 1
    /\ last.op \in {"next_str", "next_array"}
    /\ last.ret = None
    /\ Len(msg.args) >= 2

\* C16: when next_str or next_array returns None on a non-empty cursor, the declared
\* length rounded up to a multiple of 4 exceeds the bytes after the length word, and
\* the cursor has consumed exactly the length word: the next extraction starts at the
\* first payload word.  When either returns None on an empty cursor, the cursor is
\* unchanged.
C16_NoneConsumesLengthWord ==
    [][/\ IsSliceCallNone =>
            IF cur.args = <<>> THEN cur'.args = <<>>
            ELSE /\ GtNat(AlignedExact(cur.args[1]), 4 * (Len(cur.args) - 1))
                 /\ cur'.args = SubSeq(cur.args, 2, Len(cur.args))
       /\ (IsCall("next_u32") /\ FirstSliceNone) => last'.ret = Some(msg.args[2])]_vars

C16_Witness ==
    /\ FirstSliceNone
    /\ last.op = "next_array"
    /\ msg.args = <<<<0, 5>>, AbcdWord(build.endian)>>
    /\ cur.args = <<AbcdWord(build.endian)>>

====
